---- MODULE Spec2Model ----
(***************************************************************************)
(* Model of the MCP workplace-search server in src/mcp.py: token           *)
(* verification, the scope gates, the aggregating search over the source   *)
(* adapters, the audit calls to the Cequence gateway, and the HTTP         *)
(* endpoints that tie them together.                                       *)
(*                                                                         *)
(* A request is handled in one step: each endpoint is one action that      *)
(* takes the server from "idle" to "done" and records, in order, every     *)
(* outward call the handler made (events) and what the caller received.    *)
(* Requests share no state, so respond returns the server to "idle".       *)
(***************************************************************************)
EXTENDS Integers, Sequences, FiniteSets

VARIABLES
    pc,              \* "idle" | "done"
    endpoint,        \* which route served the request
    token,           \* the credential presented (Authorization header, or descope_token)
    tool_name,       \* path parameter of call_tool
    arguments,       \* tool_call.arguments / request body
    user,            \* value bound to the handler's `user` parameter
    verifier_ran,    \* verify_descope_token was called
    handler_ran,     \* the endpoint function body was entered
    gate,            \* decision of the scope gate in call_tool
    request,         \* the constructed WorkplaceSearchRequest
    events,          \* outward calls of the handler, in order
    all_results,     \* search()'s all_results after the loop
    search_response, \* value returned by WorkplaceSearchService.search
    status,          \* HTTP status the caller receives
    raised,          \* first exception raised inside the handler
    tools            \* names returned by list_tools

vars == <<pc, endpoint, token, tool_name, arguments, user, verifier_ran,
          handler_ran, gate, request, events, all_results, search_response,
          status, raised, tools>>

----------------------------------------------------------------------------
(* Bounds of the model *)

MaxScopes == 2       \* a claim set holds at most this many scopes
MaxSources == 2      \* request.sources has at most this many entries

----------------------------------------------------------------------------
(* Strings the code inspects character by character are character tuples *)

STR_workplace == <<"w","o","r","k","p","l","a","c","e">>
STR_read == <<"r","e","a","d">>
STR_google_drive == <<"g","o","o","g","l","e","_","d","r","i","v","e">>
STR_notion == <<"n","o","t","i","o","n">>

REQUIRED_SCOPE == STR_workplace \o <<":">> \o STR_read
LIST_TOOLS_PREFIX == REQUIRED_SCOPE \o <<":">>
SCOPE_GOOGLE_DRIVE == REQUIRED_SCOPE \o <<":">> \o STR_google_drive
SCOPE_NOTION == REQUIRED_SCOPE \o <<":">> \o STR_notion

\* Scopes an identity provider may grant (inputs)
SCOPE_READONLY == REQUIRED_SCOPE \o <<"o","n","l","y">>
SCOPE_WRITE == STR_workplace \o <<":","w","r","i","t","e">>
SCOPE_NOTION_PAGE == SCOPE_NOTION \o <<":","p">>

ScopeUniverse ==
    {REQUIRED_SCOPE, SCOPE_GOOGLE_DRIVE, SCOPE_NOTION, SCOPE_READONLY,
     SCOPE_WRITE, SCOPE_NOTION_PAGE}

\* str.startswith
startswith(s, prefix) ==
    /\ Len(s) >= Len(prefix)
    /\ SubSeq(s, 1, Len(prefix)) = prefix

----------------------------------------------------------------------------
(* Program constants *)

MAX_RESULTS_GE == 1
MAX_RESULTS_LE == 50
MAX_RESULTS_DEFAULT == 10
SCORE_GOOGLE_DRIVE == 95     \* 0.95, in hundredths
SCORE_NOTION == 88           \* 0.88, in hundredths
DEFAULT_SOURCES == <<"google_drive", "notion">>

HTTP_OK == 200
HTTP_UNAUTHORIZED == 401
HTTP_FORBIDDEN == 403
HTTP_NOT_FOUND == 404
HTTP_UNPROCESSABLE == 422
HTTP_INTERNAL == 500

----------------------------------------------------------------------------
(* Inputs *)

SourceNames == {"google_drive", "notion", "slack"}
ToolNames == {"workplace_search", "other_tool"}

RECURSIVE SeqsUpTo(_, _)
SeqsUpTo(S, n) ==
    IF n = 0 THEN {<<>>}
    ELSE LET shorter == SeqsUpTo(S, n - 1) IN
         shorter \cup {Append(s, x) : s \in shorter, x \in S}

\* What a token is, as far as verification can tell
TokenFaults ==
    {"none", "unreachable", "unrecognized", "bad_signature", "expired", "no_subject"}

ScopeSets == {S \in SUBSET ScopeUniverse : Cardinality(S) <= MaxScopes}

NoToken == [present |-> FALSE, fault |-> "none", scopes |-> {}]

Tokens ==
    {[present |-> TRUE, fault |-> "none", scopes |-> S] : S \in ScopeSets}
    \cup {[present |-> TRUE, fault |-> f, scopes |-> {SCOPE_GOOGLE_DRIVE, SCOPE_NOTION}] :
             f \in TokenFaults \ {"none"}}

\* The JSON object of arguments: absent fields take the model's defaults
MaxResultsInputs == {0, 1, 2, 51}

Arguments ==
    [has_query : BOOLEAN,
     has_sources : {TRUE},
     sources : SeqsUpTo(SourceNames, MaxSources),
     has_max_results : {TRUE},
     max_results : MaxResultsInputs]
    \cup
    [has_query : BOOLEAN,
     has_sources : {FALSE},
     sources : {<<>>},
     has_max_results : {TRUE},
     max_results : MaxResultsInputs]
    \cup
    [has_query : BOOLEAN,
     has_sources : {TRUE},
     sources : SeqsUpTo(SourceNames, MaxSources),
     has_max_results : {FALSE},
     max_results : {0}]
    \cup
    [has_query : BOOLEAN,
     has_sources : {FALSE},
     sources : {<<>>},
     has_max_results : {FALSE},
     max_results : {0}]

NoArguments ==
    [has_query |-> FALSE, has_sources |-> FALSE, sources |-> <<>>,
     has_max_results |-> FALSE, max_results |-> 0]

\* What a backend holds for a query: the scores of its hits, in the order the
\* backend lists them. The mock backends hold <<95>> and <<88>>.
Corpora ==
    {<<>>, <<SCORE_GOOGLE_DRIVE>>, <<SCORE_NOTION>>,
     <<SCORE_NOTION, SCORE_GOOGLE_DRIVE>>,
     <<SCORE_GOOGLE_DRIVE, SCORE_GOOGLE_DRIVE>>,
     <<SCORE_NOTION, SCORE_NOTION, SCORE_GOOGLE_DRIVE>>}

----------------------------------------------------------------------------
(* Values *)

NoUser == [kind |-> "none", scopes |-> {}]
\* Depends(lambda: check_scope(...)) binds the un-awaited coroutine object
CoroutineUser == [kind |-> "coroutine", scopes |-> {}]
Claims(scopes) == [kind |-> "claims", scopes |-> scopes]

NoRequest == [valid |-> FALSE, sources |-> <<>>, max_results |-> 0]
NoResponse == [returned |-> FALSE, results |-> <<>>, total_count |-> 0, sources |-> <<>>]
NoRaise == [exc |-> "none", code |-> 0]
HTTPException(code) == [exc |-> "HTTPException", code |-> code]
Exception(name) == [exc |-> name, code |-> 0]

\* One outward call made by a handler
Ev(op, source, success, delivered, returned) ==
    [op |-> op, source |-> source, success |-> success,
     delivered |-> delivered, returned |-> returned]

Take(s, k) == SubSeq(s, 1, IF k < Len(s) THEN k ELSE Len(s))

----------------------------------------------------------------------------
(* Authentication *)

\* Mutant: jwt.decode without the exp check
verify_descope_token_no_exp(tok) ==
    CASE tok.fault = "unreachable" ->
           [raised |-> Exception("httpx.HTTPError"), user |-> NoUser]
      [] tok.fault \in {"unrecognized", "bad_signature"} ->
           [raised |-> HTTPException(HTTP_UNAUTHORIZED), user |-> NoUser]
      [] tok.fault = "no_subject" ->
           [raised |-> Exception("ValidationError"), user |-> NoUser]
      [] OTHER ->
           [raised |-> NoRaise, user |-> Claims(tok.scopes)]

\* verify_descope_token: the provider round trip, jwt.decode (signature and
\* exp), then the UserClaims construction. Yields what it raises, or the claims.
verify_descope_token(tok) ==
    CASE tok.fault = "unreachable" ->
           [raised |-> Exception("httpx.HTTPError"), user |-> NoUser]
      [] tok.fault = "unrecognized" ->
           [raised |-> HTTPException(HTTP_UNAUTHORIZED), user |-> NoUser]
      [] tok.fault \in {"bad_signature", "expired"} ->
           [raised |-> HTTPException(HTTP_UNAUTHORIZED), user |-> NoUser]
      [] tok.fault = "no_subject" ->
           [raised |-> Exception("ValidationError"), user |-> NoUser]
      [] OTHER ->
           [raised |-> NoRaise, user |-> Claims(tok.scopes)]

\* get_current_user: HTTPException passes through, anything else becomes 401
get_current_user(tok) ==
    LET v == verify_descope_token(tok) IN
    CASE v.raised.exc = "none" -> v
      [] v.raised.exc = "HTTPException" -> v
      [] OTHER -> [raised |-> HTTPException(HTTP_UNAUTHORIZED), user |-> NoUser]

\* check_scope: exact membership of the required scope
check_scope(required_scope, usr) ==
    IF required_scope \notin usr.scopes
    THEN [raised |-> HTTPException(HTTP_FORBIDDEN), user |-> NoUser]
    ELSE [raised |-> NoRaise, user |-> usr]

\* call_tool's gate: any(scope.startswith(required_scope) for scope in user.scopes)
has_required_scope(required_scope, scopes) ==
    \E scope \in scopes : startswith(scope, required_scope)

----------------------------------------------------------------------------
(* Audit calls to the gateway: the POST is delivered or fails, and a failure
   (also one raised while encoding the payload) is swallowed *)

log_request ==
    {Ev("log_request", "", FALSE, d, <<>>) : d \in BOOLEAN}

log_response(serializable, success) ==
    {Ev("log_response", "", success, d, <<>>) :
        d \in IF serializable THEN BOOLEAN ELSE {FALSE}}

\* json.dumps of search_response.dict(): a datetime is not JSON serializable
json_serializable(resp) ==
    \A i \in 1..Len(resp.results) : ~resp.results[i].last_modified

----------------------------------------------------------------------------
(* Request model *)

\* Mutant: an empty sources list falls back to the default (sources or default)
WorkplaceSearchRequest_or_default(args) ==
    LET k == IF args.has_max_results THEN args.max_results ELSE MAX_RESULTS_DEFAULT
        srcs == IF args.has_sources /\ args.sources # <<>>
                THEN args.sources ELSE DEFAULT_SOURCES
    IN  IF args.has_query /\ k >= MAX_RESULTS_GE /\ k <= MAX_RESULTS_LE
        THEN [valid |-> TRUE, sources |-> srcs, max_results |-> k]
        ELSE NoRequest

\* WorkplaceSearchRequest(**arguments): required query, defaults, ge/le bounds
WorkplaceSearchRequest(args) ==
    LET k == IF args.has_max_results THEN args.max_results ELSE MAX_RESULTS_DEFAULT
        srcs == IF args.has_sources THEN args.sources ELSE DEFAULT_SOURCES
    IN  IF args.has_query /\ k >= MAX_RESULTS_GE /\ k <= MAX_RESULTS_LE
        THEN [valid |-> TRUE, sources |-> srcs, max_results |-> k]
        ELSE NoRequest

----------------------------------------------------------------------------
(* Source adapters and the aggregating search *)

\* The SearchResult objects an adapter builds from its backend's hits; pos and
\* rank identify the object (which loop iteration built it, at which index)
SearchResults(source, corpus, pos) ==
    [i \in 1..Len(corpus) |->
        [source |-> source, score |-> corpus[i], last_modified |-> TRUE,
         pos |-> pos, rank |-> i]]

search_google_drive(corpus, pos, max_results) ==
    Take(SearchResults("google_drive", corpus, pos), max_results)

search_notion(corpus, pos, max_results) ==
    Take(SearchResults("notion", corpus, pos), max_results)

\* An adapter call returns a list or raises
AdapterOutcomes(source, pos, max_results) ==
    {[raises |-> TRUE, results |-> <<>>]}
    \cup {[raises |-> FALSE,
           results |-> IF source = "google_drive"
                       THEN search_google_drive(c, pos, max_results)
                       ELSE search_notion(c, pos, max_results)] : c \in Corpora}

NewRun == [escaped |-> FALSE, events |-> <<>>, all_results |-> <<>>]

\* The adapter call and all_results.extend(results)
invoke_adapter(source, pos, req, run, escapes) ==
    {IF o.raises
     THEN [escaped |-> escapes,
           events |-> run.events
                      \o <<Ev("adapter", source, FALSE, FALSE, <<>>)>>
                      \o (IF escapes THEN <<>>
                          ELSE <<Ev("search_error", source, FALSE, FALSE, <<>>)>>),
           all_results |-> run.all_results]
     ELSE [escaped |-> FALSE,
           events |-> Append(run.events, Ev("adapter", source, TRUE, FALSE, o.results)),
           all_results |-> run.all_results \o o.results]
     : o \in AdapterOutcomes(source, pos, req.max_results)}

\* Mutant: no try/except around the adapter call
search_source_unguarded(source, pos, req, usr, run) ==
    IF source = "google_drive" /\ SCOPE_GOOGLE_DRIVE \in usr.scopes
    THEN invoke_adapter(source, pos, req, run, TRUE)
    ELSE IF source = "notion" /\ SCOPE_NOTION \in usr.scopes
    THEN invoke_adapter(source, pos, req, run, TRUE)
    ELSE {run}

\* One iteration of search()'s loop: the try/except around the two branches.
\* Reading user.scopes of a coroutine object raises AttributeError, which the
\* except clause logs like an adapter failure.
search_source(source, pos, req, usr, run) ==
    IF usr.kind = "coroutine"
    THEN IF source \in {"google_drive", "notion"}
         THEN {[run EXCEPT !.events =
                    Append(@, Ev("search_error", source, FALSE, FALSE, <<>>))]}
         ELSE {run}
    ELSE IF source = "google_drive" /\ SCOPE_GOOGLE_DRIVE \in usr.scopes
    THEN invoke_adapter(source, pos, req, run, FALSE)
    ELSE IF source = "notion" /\ SCOPE_NOTION \in usr.scopes
    THEN invoke_adapter(source, pos, req, run, FALSE)
    ELSE {run}

RECURSIVE search_loop(_, _, _, _)
search_loop(pos, req, usr, run) ==
    IF pos > Len(req.sources) \/ run.escaped THEN {run}
    ELSE UNION {search_loop(pos + 1, req, usr, r) :
                    r \in search_source(req.sources[pos], pos, req, usr, run)}

\* Mutant: ties come out in reverse arrival order (ascending sort, reversed)
insert_by_score_unstable(sorted, x) ==
    LET k == Cardinality({i \in 1..Len(sorted) : sorted[i].score > x.score})
    IN  SubSeq(sorted, 1, k) \o <<x>> \o SubSeq(sorted, k + 1, Len(sorted))

\* list.sort(key=score, reverse=True) is stable: x goes after every element
\* that precedes it and has a score at least as high
insert_by_score(sorted, x) ==
    LET k == Cardinality({i \in 1..Len(sorted) : sorted[i].score >= x.score})
    IN  SubSeq(sorted, 1, k) \o <<x>> \o SubSeq(sorted, k + 1, Len(sorted))

RECURSIVE sort_by_score(_)
sort_by_score(s) ==
    IF s = <<>> THEN <<>>
    ELSE insert_by_score(sort_by_score(SubSeq(s, 1, Len(s) - 1)), s[Len(s)])

\* Mutant: no truncation of the combined list
limit_results_missing(sorted, max_results) == sorted

\* final_results = all_results[:request.max_results]
limit_results(sorted, max_results) == Take(sorted, max_results)

\* WorkplaceSearchService.search: the set of ways one call can go
search(req, usr) ==
    {[escaped |-> run.escaped,
      events |-> run.events,
      all_results |-> run.all_results,
      response |->
          IF run.escaped THEN NoResponse
          ELSE LET final_results ==
                       limit_results(sort_by_score(run.all_results), req.max_results)
               IN  [returned |-> TRUE, results |-> final_results,
                    total_count |-> Len(final_results), sources |-> req.sources]]
     : run \in search_loop(1, req, usr, NewRun)}

----------------------------------------------------------------------------
(* call_tool *)

Outcome(g, req, evs, run, resp, st, exc) ==
    [gate |-> g, request |-> req, events |-> evs, all_results |-> run.all_results,
     search_response |-> resp, status |-> st, raised |-> exc]

\* The two except clauses: audit the failure, then re-raise an HTTPException
\* as it is and turn anything else into a 500
call_tool_except(exc, g, req, evs, run, resp) ==
    {Outcome(g, req, Append(evs, e), run, resp,
             IF exc.exc = "HTTPException" THEN exc.code ELSE HTTP_INTERNAL, exc)
     : e \in log_response(TRUE, FALSE)}

\* Mutant: log_response without its try/except - an undelivered success audit
\* raises into call_tool's except clause
call_tool_respond_audit_raises(req, evs, run) ==
    UNION {
        IF ~e.delivered
        THEN call_tool_except(Exception("httpx.HTTPError"), "granted", req,
                              Append(evs, e), run, run.response)
        ELSE IF json_serializable(run.response)
        THEN {Outcome("granted", req, Append(evs, e) , run, run.response,
                      HTTP_OK, NoRaise)}
        ELSE call_tool_except(Exception("TypeError"), "granted", req,
                              Append(evs, e), run, run.response)
        : e \in log_response(json_serializable(run.response), TRUE)}

\* After search() returned: audit the success, then build the MCPResponse,
\* whose resource text is json.dumps(search_response.dict())
call_tool_respond(req, evs, run) ==
    UNION {
        IF json_serializable(run.response)
        THEN {Outcome("granted", req, Append(evs, e) , run, run.response,
                      HTTP_OK, NoRaise)}
        ELSE call_tool_except(Exception("TypeError"), "granted", req,
                              Append(evs, e), run, run.response)
        : e \in log_response(json_serializable(run.response), TRUE)}

\* The try block after log_request, over the ways `runs` the call of
\* workplace_search.search can go
call_tool_try_over(name, args, usr, evs, runs) ==
    IF name = "workplace_search"
    THEN IF ~has_required_scope(REQUIRED_SCOPE, usr.scopes)
         THEN call_tool_except(HTTPException(HTTP_FORBIDDEN), "rejected",
                               NoRequest, evs, NewRun, NoResponse)
         ELSE LET req == WorkplaceSearchRequest(args) IN
              IF ~req.valid
              THEN call_tool_except(Exception("ValidationError"), "granted",
                                    NoRequest, evs, NewRun, NoResponse)
              ELSE UNION {
                     IF run.escaped
                     THEN call_tool_except(Exception("AdapterError"), "granted",
                                           req, evs \o run.events, run, NoResponse)
                     ELSE call_tool_respond(req, evs \o run.events, run)
                     : run \in runs}
    ELSE call_tool_except(HTTPException(HTTP_NOT_FOUND), "none",
                          NoRequest, evs, NewRun, NoResponse)

call_tool_body_over(name, args, usr, runs) ==
    UNION {call_tool_try_over(name, args, usr, <<e>>, runs) : e \in log_request}

\* workplace_search.search(search_request, user), once the request is built
search_call(args, usr) ==
    LET req == WorkplaceSearchRequest(args) IN
    IF req.valid THEN search(req, usr) ELSE {}

\* The try block after log_request
call_tool_try(name, args, usr, evs) ==
    call_tool_try_over(name, args, usr, evs, search_call(args, usr))

call_tool_body(name, args, usr) ==
    call_tool_body_over(name, args, usr, search_call(args, usr))

\* A request that ends before the handler body, or in a handler without audit
Plain(st, exc) == Outcome("none", NoRequest, <<>>, NewRun, NoResponse, st, exc)

Finish(ep, tok, name, args, usr, vran, hran, o, tl) ==
    /\ pc' = "done"
    /\ endpoint' = ep
    /\ token' = tok
    /\ tool_name' = name
    /\ arguments' = args
    /\ user' = usr
    /\ verifier_ran' = vran
    /\ handler_ran' = hran
    /\ gate' = o.gate
    /\ request' = o.request
    /\ events' = o.events
    /\ all_results' = o.all_results
    /\ search_response' = o.search_response
    /\ status' = o.status
    /\ raised' = o.raised
    /\ tools' = tl

\* POST /mcp/tools/{tool_name}/call
call_tool ==
    /\ pc = "idle"
    /\ \E tok \in Tokens \cup {NoToken}, name \in ToolNames, args \in Arguments :
        IF ~tok.present
        THEN Finish("call_tool", tok, name, args, NoUser, FALSE, FALSE,
                    Plain(HTTP_FORBIDDEN, HTTPException(HTTP_FORBIDDEN)), <<>>)
        ELSE LET auth == get_current_user(tok) IN
             IF auth.raised.exc # "none"
             THEN Finish("call_tool", tok, name, args, NoUser, TRUE, FALSE,
                         Plain(auth.raised.code, auth.raised), <<>>)
             ELSE \E o \in call_tool_body(name, args, auth.user) :
                     Finish("call_tool", tok, name, args, auth.user, TRUE, TRUE,
                            o, <<>>)

----------------------------------------------------------------------------
(* The other endpoints *)

\* GET /health
health_check ==
    /\ pc = "idle"
    /\ \E tok \in {NoToken, [present |-> TRUE, fault |-> "expired", scopes |-> {}]} :
        Finish("health_check", tok, "", NoArguments, NoUser, FALSE, TRUE,
               Plain(HTTP_OK, NoRaise), <<>>)

\* GET /mcp/info
mcp_info ==
    /\ pc = "idle"
    /\ \E tok \in {NoToken, [present |-> TRUE, fault |-> "expired", scopes |-> {}]} :
        Finish("mcp_info", tok, "", NoArguments, NoUser, FALSE, TRUE,
               Plain(HTTP_OK, NoRaise), <<>>)

\* GET /mcp/tools
list_tools ==
    /\ pc = "idle"
    /\ \E tok \in Tokens \cup {NoToken} :
        IF ~tok.present
        THEN Finish("list_tools", tok, "", NoArguments, NoUser, FALSE, FALSE,
                    Plain(HTTP_FORBIDDEN, HTTPException(HTTP_FORBIDDEN)), <<>>)
        ELSE LET auth == get_current_user(tok) IN
             IF auth.raised.exc # "none"
             THEN Finish("list_tools", tok, "", NoArguments, NoUser, TRUE, FALSE,
                         Plain(auth.raised.code, auth.raised), <<>>)
             ELSE Finish("list_tools", tok, "", NoArguments, auth.user, TRUE, TRUE,
                         Plain(HTTP_OK, NoRaise),
                         IF \E scope \in auth.user.scopes :
                                startswith(scope, LIST_TOOLS_PREFIX)
                         THEN <<"workplace_search">> ELSE <<>>)

\* POST /api/v1/workplace/search. The dependency is the lambda itself: it takes
\* no parameters, so nothing reads the Authorization header, and what it
\* returns - the coroutine check_scope("workplace:read"), never awaited - is
\* bound to `user`. The body is validated before the handler is entered.
workplace_search_endpoint ==
    /\ pc = "idle"
    /\ \E tok \in Tokens \cup {NoToken}, args \in Arguments :
        LET req == WorkplaceSearchRequest(args) IN
        IF ~req.valid
        THEN Finish("workplace_search_endpoint", tok, "", args, CoroutineUser,
                    FALSE, FALSE,
                    Plain(HTTP_UNPROCESSABLE, Exception("RequestValidationError")),
                    <<>>)
        ELSE \E run \in search(req, CoroutineUser) :
                Finish("workplace_search_endpoint", tok, "", args, CoroutineUser,
                       FALSE, TRUE,
                       IF run.escaped
                       THEN Outcome("none", req, run.events, run, NoResponse,
                                    HTTP_INTERNAL, Exception("AdapterError"))
                       ELSE Outcome("none", req, run.events, run, run.response,
                                    HTTP_OK, NoRaise),
                       <<>>)

\* POST /auth/token/exchange: descope_token is a required query parameter;
\* whatever verification raises becomes 401
exchange_descope_token ==
    /\ pc = "idle"
    /\ \E tok \in Tokens \cup {NoToken} :
        IF ~tok.present
        THEN Finish("exchange_descope_token", tok, "", NoArguments, NoUser,
                    FALSE, FALSE,
                    Plain(HTTP_UNPROCESSABLE, Exception("RequestValidationError")),
                    <<>>)
        ELSE LET v == verify_descope_token(tok) IN
             IF v.raised.exc # "none"
             THEN Finish("exchange_descope_token", tok, "", NoArguments, NoUser,
                         TRUE, TRUE,
                         Plain(HTTP_UNAUTHORIZED, HTTPException(HTTP_UNAUTHORIZED)),
                         <<>>)
             ELSE Finish("exchange_descope_token", tok, "", NoArguments, v.user,
                         TRUE, TRUE, Plain(HTTP_OK, NoRaise), <<>>)

\* The response has been sent; nothing of the request is kept
respond ==
    /\ pc = "done"
    /\ pc' = "idle"
    /\ endpoint' = ""
    /\ token' = NoToken
    /\ tool_name' = ""
    /\ arguments' = NoArguments
    /\ user' = NoUser
    /\ verifier_ran' = FALSE
    /\ handler_ran' = FALSE
    /\ gate' = "none"
    /\ request' = NoRequest
    /\ events' = <<>>
    /\ all_results' = <<>>
    /\ search_response' = NoResponse
    /\ status' = 0
    /\ raised' = NoRaise
    /\ tools' = <<>>

Init ==
    /\ pc = "idle"
    /\ endpoint = ""
    /\ token = NoToken
    /\ tool_name = ""
    /\ arguments = NoArguments
    /\ user = NoUser
    /\ verifier_ran = FALSE
    /\ handler_ran = FALSE
    /\ gate = "none"
    /\ request = NoRequest
    /\ events = <<>>
    /\ all_results = <<>>
    /\ search_response = NoResponse
    /\ status = 0
    /\ raised = NoRaise
    /\ tools = <<>>

Next ==
    \/ health_check
    \/ mcp_info
    \/ list_tools
    \/ call_tool
    \/ workplace_search_endpoint
    \/ exchange_descope_token
    \/ respond

Spec == Init /\ [][Next]_vars

----------------------------------------------------------------------------
(* What the properties below speak of *)

Done == pc = "done"

Min(a, b) == IF a < b THEN a ELSE b

\* The authorization rule of the design: a scope equal to `required`, or
\* `required` followed by ":" and a suffix
Authorizes(scopes, required) ==
    \E s \in scopes : s = required \/ startswith(s, required \o <<":">>)

TokenVerifies(tok) == tok.present /\ tok.fault = "none"

AdapterInvoked == \E i \in 1..Len(events) : events[i].op = "adapter"

AdapterRaised ==
    \E i \in 1..Len(events) : events[i].op = "adapter" /\ ~events[i].success

ResponseAudits == {i \in 1..Len(events) : events[i].op = "log_response"}

\* Everything the adapters returned, in the order it was returned
RECURSIVE CollectedFrom(_)
CollectedFrom(evs) ==
    IF evs = <<>> THEN <<>>
    ELSE (IF Head(evs).op = "adapter" /\ Head(evs).success
          THEN Head(evs).returned ELSE <<>>) \o CollectedFrom(Tail(evs))

Collected == CollectedFrom(events)

Range(f) == {f[i] : i \in DOMAIN f}

ArrivedBefore(a, b) == a.pos < b.pos \/ (a.pos = b.pos /\ a.rank < b.rank)

Malformed(args) ==
    \/ ~args.has_query
    \/ args.has_max_results /\ (args.max_results < 1 \/ args.max_results > 50)

----------------------------------------------------------------------------
(* Properties *)

\* C1: wherever the gate is applied to "workplace:read", it grants exactly when
\* the claim set holds the required scope or the required scope followed by
\* ":" and a suffix - in call_tool's gate, and in the check_scope of the
\* direct search endpoint.
C1_GateFollowsRule ==
    /\ (Done /\ endpoint = "call_tool" /\ gate # "none")
          => (gate = "granted" <=> Authorizes(user.scopes, REQUIRED_SCOPE))
    /\ (Done /\ endpoint = "workplace_search_endpoint" /\ TokenVerifies(token))
          => (check_scope(REQUIRED_SCOPE, Claims(token.scopes)).raised.exc = "none"
                <=> Authorizes(token.scopes, REQUIRED_SCOPE))

\* C2: on every endpoint other than /health and /mcp/info, a request without
\* a successfully verified token gets no success response, and (the token
\* exchange aside, which verifies inside its body) never enters the handler.
C2_BearerRequired ==
    (Done /\ endpoint \notin {"health_check", "mcp_info"} /\ ~TokenVerifies(token))
        => /\ status # HTTP_OK
           /\ endpoint # "exchange_descope_token" => ~handler_ran

\* C3: a well-formed workplace_search tool call by a verified user whose
\* scopes do not grant workplace:read is answered 403, and no adapter is
\* invoked.
C3_NoReadScopeIsForbidden ==
    (Done /\ endpoint = "call_tool" /\ tool_name = "workplace_search"
          /\ user.kind = "claims" /\ ~Authorizes(user.scopes, REQUIRED_SCOPE)
          /\ ~Malformed(arguments))
        => status = HTTP_FORBIDDEN /\ ~AdapterInvoked

C5_AdapterFailureAbsorbed ==
    (Done /\ AdapterRaised)
        => LET out == search_response.results IN
           /\ search_response.returned
           /\ Len(out) = Min(request.max_results, Len(Collected))
           /\ \A i \in 1..Len(out) : out[i] \in Range(Collected)
           /\ \A i, j \in 1..Len(out) : i < j =>
                  out[i] # out[j] /\ out[i].score >= out[j].score
           /\ \A r \in Range(Collected) \ Range(out) :
                  \A i \in 1..Len(out) : out[i].score >= r.score

C5_Witness ==
    /\ Done /\ AdapterRaised
    /\ Len(Collected) > 0
    /\ search_response.returned
    /\ Len(search_response.results) > 0

\* C6: the results of a search response are in non-increasing score order,
\* and results of equal score keep their order of arrival (position of the
\* source in request.sources, then the adapter's own order).
C6_RankedAndStable ==
    (Done /\ search_response.returned)
        => LET out == search_response.results IN
           \A i, j \in 1..Len(out) : i < j =>
               /\ out[i].score >= out[j].score
               /\ out[i].score = out[j].score => ArrivedBefore(out[i], out[j])

C6_Witness ==
    /\ Done /\ search_response.returned
    /\ \E i, j \in 1..Len(search_response.results) :
          /\ i < j
          /\ search_response.results[i].score = search_response.results[j].score
          /\ search_response.results[i].pos < search_response.results[j].pos
    /\ \E i \in 1..Len(all_results) : \E j \in 1..Len(all_results) :
          i < j /\ all_results[i].score < all_results[j].score

\* C7: with max_results = k and n results collected from all searched
\* sources, the response holds min(k, n) results, never more than k, and
\* total_count is that length.
C7_TruncatedToMaxResults ==
    (Done /\ search_response.returned)
        => /\ Len(search_response.results)
                = Min(request.max_results, Len(Collected))
           /\ Len(search_response.results) <= request.max_results
           /\ search_response.total_count = Len(search_response.results)

C7_Witness ==
    /\ Done /\ search_response.returned
    /\ Len(Collected) > request.max_results
    /\ \A i \in 1..Len(events) :
          events[i].op = "adapter" => Len(events[i].returned) <= request.max_results
    /\ Len(search_response.results) = request.max_results

\* C8: a search over an empty sources list returns normally with
\* total_count = 0 and no results, whatever the claim set; nothing is raised
\* and no adapter is invoked.
C8_EmptySources ==
    (Done /\ request.valid /\ arguments.has_sources /\ arguments.sources = <<>>)
        => /\ search_response.returned
           /\ search_response.total_count = 0
           /\ search_response.results = <<>>
           /\ ~AdapterInvoked
           /\ raised = NoRaise
           /\ status = HTTP_OK

C8_Witness ==
    /\ Done /\ endpoint = "call_tool" /\ request.valid
    /\ arguments.has_sources /\ arguments.sources = <<>>
    /\ {SCOPE_GOOGLE_DRIVE, SCOPE_NOTION} \subseteq user.scopes
    /\ search_response.returned /\ status = HTTP_OK

\* C9: a workplace_search tool call (verified, past the gate) whose arguments
\* lack query or carry max_results outside [1,50] is rejected with a
\* validation status (400 or 422), not the internal-error status; the value is
\* not clamped and no adapter is invoked.
C9_MalformedIsValidationError ==
    (Done /\ endpoint = "call_tool" /\ tool_name = "workplace_search"
          /\ gate = "granted" /\ Malformed(arguments))
        => /\ status \in {400, HTTP_UNPROCESSABLE}
           /\ status # HTTP_INTERNAL
           /\ ~request.valid
           /\ ~AdapterInvoked

\* C10: every failed tool call that presented a token - failed
\* authentication included - attempts a response audit before the error is
\* returned, and an HTTP error raised for it reaches the caller with its own
\* status.
C10_FailureIsAudited ==
    (Done /\ endpoint = "call_tool" /\ token.present /\ status # HTTP_OK)
        => /\ ResponseAudits # {}
           /\ raised.exc = "HTTPException" => status = raised.code

----------------------------------------------------------------------------
(* The same call under other audit deliveries *)

IsSearchEvent(e) == e.op \in {"adapter", "search_error"}

\* What search() did in the call just handled, read back from the state
ObservedRun ==
    [escaped |-> raised.exc = "AdapterError",
     events |-> SelectSeq(events, IsSearchEvent),
     all_results |-> all_results,
     response |-> search_response]

\* Every way the call just handled can go with the same token, tool name,
\* arguments and adapter behaviour: only the audit deliveries vary
SameCallAnyDelivery ==
    call_tool_body_over(tool_name, arguments, user, {ObservedRun})

Undelivered(op) ==
    \E i \in 1..Len(events) : events[i].op = op /\ ~events[i].delivered

\* C11: whether the request audit and the response audit are delivered or not
\* makes no difference to what the caller of a tool call receives: the same
\* token, arguments and adapter behaviour give the same status, the same error
\* and the same search results under every combination of deliveries.
C11_AuditDeliveryIsInvisible ==
    (Done /\ endpoint = "call_tool" /\ handler_ran)
        => \A o \in SameCallAnyDelivery :
              /\ o.status = status
              /\ o.raised = raised
              /\ o.search_response = search_response
              /\ o.gate = gate

C11_Witness ==
    /\ Done /\ endpoint = "call_tool" /\ handler_ran
    /\ Undelivered("log_request") /\ Undelivered("log_response")
    /\ status = HTTP_OK
    /\ \E o \in SameCallAnyDelivery :
          o.events # events /\ \A i \in 1..Len(o.events) :
              o.events[i].op \in {"log_request", "log_response"} => o.events[i].delivered

----------------------------------------------------------------------------
(* Which adapters a search invokes *)

KnownAdapters == {"google_drive", "notion"}

\* "workplace:read:<source>"
SourceScope(source) ==
    CASE source = "google_drive" -> REQUIRED_SCOPE \o <<":">> \o STR_google_drive
      [] source = "notion" -> REQUIRED_SCOPE \o <<":">> \o STR_notion
      [] OTHER -> REQUIRED_SCOPE \o <<":">> \o <<"s","l","a","c","k">>

InvokedFor(source) ==
    \E i \in 1..Len(events) : events[i].op = "adapter" /\ events[i].source = source

\* C12: in a search reached by a tool call, the adapter of a source is invoked
\* exactly when the source is in request.sources, names a known adapter and
\* the claim set is authorized, by the authorization rule, for
\* workplace:read:<source>; any other source is skipped without an error, and
\* every result comes from a requested and authorized source.
C12_InvokedIffRequestedAndAuthorized ==
    (Done /\ endpoint = "call_tool" /\ request.valid)
        => /\ \A source \in SourceNames :
                InvokedFor(source)
                  <=> /\ source \in Range(request.sources)
                      /\ source \in KnownAdapters
                      /\ Authorizes(user.scopes, SourceScope(source))
           /\ search_response.returned
           /\ \A i \in 1..Len(search_response.results) :
                LET source == search_response.results[i].source IN
                /\ source \in Range(request.sources)
                /\ Authorizes(user.scopes, SourceScope(source))

----------------------------------------------------------------------------
(* The audit trail of one tool call *)

RequestAudits == {i \in 1..Len(events) : events[i].op = "log_request"}

\* C13: a tool call that reaches the handler attempts the request audit
\* first and then exactly one response audit, whose success flag is true
\* exactly when the caller gets a normal response; no call sends a
\* success=true audit and then returns an error.
C13_OneResponseAuditMatchingOutcome ==
    (Done /\ endpoint = "call_tool" /\ handler_ran)
        => /\ RequestAudits = {1}
           /\ Cardinality(ResponseAudits) = 1
           /\ \A i \in ResponseAudits :
                /\ i > 1
                /\ events[i].success <=> status = HTTP_OK

====
